---- MODULE Spec2Model ----
(***************************************************************************)
(* Model of piggyanki's card pipeline (src/common.py): the flag grammar,   *)
(* the word normalizer, the three renderers, the identity stem, the flag   *)
(* filter and Card.save.                                                   *)
(*                                                                         *)
(* A Python str is a sequence of characters, each character a one-element  *)
(* TLA+ string.  Three kinds of element stand for more than one character: *)
(*   - "U+05B8", "U+05B0": the Hebrew points qamats and sheva (category    *)
(*     Mn), named by their code point;                                     *)
(*   - "<b>", "</b>": an opening and a closing tag in a source field;      *)
(*   - the literal markup save() and the dress_* functions emit, kept as   *)
(*     one element per literal.                                            *)
(* Python's None is the value None below.                                  *)
(***************************************************************************)
EXTENDS Naturals, Sequences, FiniteSets, TLC

VARIABLES
    entries,        \* the raw tuples the collaborator passes to Card(...)
    cards,          \* the Card objects (their private fields)
    pc,             \* per card: "constructed", "filtered", "saved"
    include_flags,  \* should_be_saved's include list
    exclude_flags,  \* should_be_saved's exclude list
    keep,           \* per card: what should_be_saved returned, or "unset"
    fh,             \* the rows written to the output file, in order
    stems,          \* per card: what a direct calc_uuid_stem call returned,
                    \* or NoStem
    clock,          \* the number of uuid1() calls made so far
    arg,            \* the arguments given to a static function of utils
    ret             \* the results of the calls made with them

vars == <<entries, cards, pc, include_flags, exclude_flags, keep, fh, stems,
          clock, arg, ret>>

---------------------------------------------------------------------------
(* Python values and str methods *)

None == <<"<None>">>

Texts(alphabet, n) == UNION {[1..k -> alphabet] : k \in 0..n}

Contains(s, c) == \E i \in DOMAIN s : s[i] = c

Whitespace == {" ", "\t", "\n"}

ReplaceTab(s) == [i \in DOMAIN s |-> IF s[i] = "\t" THEN " " ELSE s[i]]

RECURSIVE LStrip(_)
LStrip(s) ==
    IF s # <<>> /\ Head(s) \in Whitespace THEN LStrip(Tail(s)) ELSE s

RECURSIVE RStrip(_)
RStrip(s) ==
    IF s # <<>> /\ s[Len(s)] \in Whitespace
    THEN RStrip(SubSeq(s, 1, Len(s) - 1))
    ELSE s

Strip(s) == RStrip(LStrip(s))

(* unicodedata.category(c)[0] for the characters of the model *)
Letters == {"a", "b", "c", "e", "f", "h", "m", "n", "o", "p", "q", "s", "t",
            "u", "v", "x", "A", "B", "F", "I", "N", "P", "S", "V"}

Marks == {"U+05B8", "U+05B0"}

Digits == {"1", "2", "3"}

Category(c) ==
    IF c \in Letters THEN "L"
    ELSE IF c \in Marks THEN "M"
    ELSE IF c \in Digits THEN "N"
    ELSE IF c \in {" "} THEN "Z"
    ELSE IF c \in {"\t", "\n"} THEN "C"
    ELSE IF c \in {"|", "<", ">", "+"} THEN "S"
    ELSE "P"

IsLetterOrMark(c) == Category(c) \in {"L", "M"}

IsLetter(c) == Category(c) = "L"

---------------------------------------------------------------------------
(* class utils *)

cleanup(s) == IF s # None THEN Strip(ReplaceTab(s)) ELSE <<>>

(* BeautifulSoup(content, "html.parser"): the children of a node.  A run of
   characters is one NavigableString; "<b>" opens a Tag that runs to its
   matching "</b>" (or to the end of the input when it is never closed); a
   "</b>" that closes nothing is dropped, and still ends the run before it. *)
OpenTag == "<b>"

CloseTag == "</b>"

IsTagToken(c) == c \in {OpenTag, CloseTag}

RECURSIVE MatchClose(_, _, _)
MatchClose(s, i, depth) ==
    IF i > Len(s) THEN i
    ELSE IF s[i] = CloseTag
         THEN IF depth = 1 THEN i ELSE MatchClose(s, i + 1, depth - 1)
    ELSE IF s[i] = OpenTag THEN MatchClose(s, i + 1, depth + 1)
    ELSE MatchClose(s, i + 1, depth)

RECURSIVE RunEnd(_, _)
RunEnd(s, i) ==
    IF i <= Len(s) /\ ~IsTagToken(s[i]) THEN RunEnd(s, i + 1) ELSE i

RECURSIVE Children(_)
Children(s) ==
    IF s = <<>> THEN <<>>
    ELSE IF Head(s) = OpenTag
         THEN LET j == MatchClose(s, 2, 1)
              IN  <<[kind |-> "tag", data |-> SubSeq(s, 2, j - 1)]>>
                  \o Children(SubSeq(s, j + 1, Len(s)))
    ELSE IF Head(s) = CloseTag THEN Children(Tail(s))
    ELSE LET k == RunEnd(s, 1)
         IN  <<[kind |-> "text", data |-> SubSeq(s, 1, k - 1)]>>
             \o Children(SubSeq(s, k, Len(s)))

(* Tag.string: the only child if it is a string, the only child's .string
   if it is a tag, None when there are no children or several. *)
RECURSIVE SoupString(_)
SoupString(s) ==
    LET ch == Children(s)
    IN  IF Len(ch) # 1 THEN None
        ELSE IF ch[1].kind = "text" THEN ch[1].data
        ELSE SoupString(ch[1].data)

(* str(x): str(None) is the four letters "None" *)
PyStr(x) == IF x = None THEN <<"N", "o", "n", "e">> ELSE x

remove_html(content) == cleanup(PyStr(SoupString(content)))

(* A mutant of remove_nekudot: the '.' test inverted (marks are stripped
   when the sentinel is present and retained when it is absent). *)
remove_nekudot_inverted(word, flags) ==
    LET w     == SelectSeq(remove_html(word), IsLetterOrMark)
        naked == SelectSeq(w, IsLetter)
    IN  IF flags # None /\ Contains(flags, ".") THEN naked ELSE w

remove_nekudot(word, flags) ==
    LET w     == SelectSeq(remove_html(word), IsLetterOrMark)
        naked == SelectSeq(w, IsLetter)
    IN  IF flags # None
        THEN IF ~Contains(flags, ".")
             THEN IF Contains(flags, "2") /\ Contains(flags, "V")
                     /\ Contains(flags, "S")
                  THEN IF Len(w) > 0
                       THEN IF Category(w[Len(w)]) = "M"
                            THEN Append(naked, w[Len(w)])
                            ELSE naked
                       ELSE w
                  ELSE naked
             ELSE w
        ELSE w

(* ' '.join(annotations), as a TLA+ string *)
RECURSIVE Join(_)
Join(phrases) ==
    IF phrases = <<>> THEN ""
    ELSE IF Len(phrases) = 1 THEN phrases[1]
    ELSE phrases[1] \o " " \o Join(Tail(phrases))

GenderPhrase(flags) ==
    IF Contains(flags, "m") /\ Contains(flags, "f") THEN <<>>
    ELSE IF Contains(flags, "m") THEN <<"masculine">>
    ELSE IF Contains(flags, "f") THEN <<"feminine">>
    ELSE <<>>

PersonPhrase(flags) ==
    IF Contains(flags, "1") /\ Contains(flags, "2") /\ Contains(flags, "3")
    THEN <<>>
    ELSE IF Contains(flags, "1") /\ Contains(flags, "2")
    THEN <<"1st/2nd person">>
    ELSE IF Contains(flags, "1") /\ Contains(flags, "3")
    THEN <<"1st/3rd person">>
    ELSE IF Contains(flags, "2") /\ Contains(flags, "3")
    THEN <<"2nd/3rd person">>
    ELSE IF Contains(flags, "1") THEN <<"1st person">>
    ELSE IF Contains(flags, "2") THEN <<"2nd person">>
    ELSE IF Contains(flags, "3") THEN <<"3rd person">>
    ELSE <<>>

NumberPhrase(flags) ==
    IF Contains(flags, "s") /\ Contains(flags, "p") THEN <<>>
    ELSE IF Contains(flags, "s") THEN <<"single">>
    ELSE IF Contains(flags, "p") THEN <<"plural">>
    ELSE <<>>

(* A mutant of TensePhrase: past is tested before present. *)
TensePhrase_past_first(flags) ==
    IF Contains(flags, "I") THEN <<"infinitive">>
    ELSE IF Contains(flags, "S") THEN <<"past">>
    ELSE IF Contains(flags, "P") THEN <<"present">>
    ELSE IF Contains(flags, "F") THEN <<"future">>
    ELSE <<>>

TensePhrase(flags) ==
    IF Contains(flags, "I") THEN <<"infinitive">>
    ELSE IF Contains(flags, "P") THEN <<"present">>
    ELSE IF Contains(flags, "S") THEN <<"past">>
    ELSE IF Contains(flags, "F") THEN <<"future">>
    ELSE <<>>

StatePhrase(flags) ==
    IF Contains(flags, "a") /\ Contains(flags, "c") THEN <<>>
    ELSE IF Contains(flags, "a") THEN <<"absolute">>
    ELSE IF Contains(flags, "c") THEN <<"construct">>
    ELSE <<>>

annotate_flags(flags) ==
    LET annotations == GenderPhrase(flags) \o PersonPhrase(flags)
                       \o NumberPhrase(flags) \o TensePhrase(flags)
                       \o StatePhrase(flags)
    IN  IF Len(annotations) > 0 THEN Join(annotations) ELSE ""

dress_word(word, flags) ==
    LET w     == remove_nekudot(word, flags)
        style == "font-size:24pt;"
                 \o (IF Contains(flags, "m") THEN "color:blue;"
                     ELSE IF Contains(flags, "f") THEN "color:red;"
                     ELSE "")
    IN  IF Len(w) = 0 THEN w
        ELSE <<"<span style=\"" \o style \o "\">">> \o w \o <<"</span>">>

dress_translation(translation, flags) ==
    LET t          == cleanup(translation)
        text       == <<"<span style=\"font-size:18pt;\">">> \o t
                      \o <<"</span>">>
        annotation == annotate_flags(flags)
    IN  IF Len(t) = 0 THEN t
        ELSE IF annotation # ""
        THEN text \o <<"<span style=\"font-size:12pt;\"><br />("
                         \o annotation \o ")</span>">>
        ELSE text

(* The pattern re.search matches against the whole trimmed text: a prefix
   with no star, a star, a core of one or more non-star characters, a star,
   a suffix with no star.  So: exactly two stars, not adjacent. *)
StarPositions(p) == {i \in DOMAIN p : p[i] = "*"}

(* A mutant of StressMatch: the core may be empty (two adjacent stars
   match). *)
StressMatch_empty_core(p) == Cardinality(StarPositions(p)) = 2

StressMatch(p) ==
    /\ Cardinality(StarPositions(p)) = 2
    /\ \E i, j \in StarPositions(p) : i + 1 < j

dress_pronunciation(pronunciation, flags) ==
    LET p == cleanup(pronunciation)
    IN  IF Len(p) = 0 THEN p
        ELSE IF StressMatch(p)
        THEN LET i == CHOOSE k \in StarPositions(p) :
                          \A l \in StarPositions(p) : k <= l
                 j == CHOOSE k \in StarPositions(p) :
                          \A l \in StarPositions(p) : l <= k
             IN  <<"<span style=\"font-size:18pt\">">>
                 \o SubSeq(p, 1, i - 1)
                 \o <<"<span style=\"color:red;font-weight:bold;\">">>
                 \o SubSeq(p, i + 1, j - 1)
                 \o <<"</span>">>
                 \o SubSeq(p, j + 1, Len(p))
                 \o <<"</span>">>
        ELSE <<"<span style=\"font-size:18pt\">">> \o p \o <<"</span>">>

---------------------------------------------------------------------------
(* class Card *)

Card(e) ==
    [word          |-> cleanup(e.word),
     translation   |-> cleanup(e.translation),
     pronunciation |-> cleanup(e.pronunciation),
     flags         |-> cleanup(e.flags),
     tags          |-> cleanup(e.tags),
     source        |-> cleanup(e.source),
     uuid_prefix   |-> "PGMS"]

has_all_flags(card, flags) ==
    LET f == cleanup(flags)
    IN  IF Len(f) < 1 THEN FALSE
        ELSE \A i \in DOMAIN f : Contains(card.flags, f[i])

has_flags(card, flags) ==
    IF Len(flags) < 1 THEN FALSE
    ELSE \E i \in DOMAIN flags : has_all_flags(card, flags[i])

(* A mutant of should_be_saved: with both lists given, exclusion has
   priority. *)
should_be_saved_exclusion_first(card, include, exclude) ==
    LET include_given == Len(include) > 0
        exclude_given == Len(exclude) > 0
    IN  IF ~include_given /\ ~exclude_given THEN TRUE
        ELSE IF include_given /\ ~exclude_given
        THEN has_flags(card, include)
        ELSE IF ~include_given /\ exclude_given
        THEN ~has_flags(card, exclude)
        ELSE IF has_flags(card, exclude) THEN FALSE
        ELSE has_flags(card, include)

should_be_saved(card, include, exclude) ==
    LET include_given == Len(include) > 0
        exclude_given == Len(exclude) > 0
    IN  IF ~include_given /\ ~exclude_given THEN TRUE
        ELSE IF include_given /\ ~exclude_given
        THEN has_flags(card, include)
        ELSE IF ~include_given /\ exclude_given
        THEN ~has_flags(card, exclude)
        ELSE IF has_flags(card, include) THEN TRUE
        ELSE ~has_flags(card, exclude)

(* rep, the string calc_uuid_stem hashes *)
(* A mutant of UuidRep: the word is normalized under the card's own flags,
   without the sentinel. *)
UuidRep_own_flags(card) ==
    LET rep == remove_nekudot(card.word, card.flags)
    IN  IF Len(card.source) > 0 THEN rep \o <<"|">> \o card.source ELSE rep

(* A mutant of UuidRep: the source is left out. *)
UuidRep_no_source(card) == remove_nekudot(card.word, Append(card.flags, "."))

UuidRep(card) ==
    LET rep == remove_nekudot(card.word, Append(card.flags, "."))
    IN  IF Len(card.source) > 0 THEN rep \o <<"|">> \o card.source ELSE rep

(* sha256(...).hexdigest() is kept as the digest's input (no collisions);
   uuid1().hex is a value that differs from one call to the next, told
   apart here by the number of uuid1() calls made before it. *)
Sha256Hex(rep) == [alg |-> "sha256", msg |-> rep]

Uuid1Hex(clk) == [alg |-> "uuid1", msg |-> <<ToString(clk)>>]

(* A mutant of calc_uuid_stem: the random identifier is returned whatever
   rep is. *)
calc_uuid_stem_always_uuid1(card, clk) == Uuid1Hex(clk)

calc_uuid_stem(card, clk) ==
    IF Len(UuidRep(card)) > 0 THEN Sha256Hex(UuidRep(card)) ELSE Uuid1Hex(clk)

ask_pronunciation == "<em style=\"font-size:14pt\">Pronounce:</em>"

ask_translation == "<em style=\"font-size:14pt\">Translate:</em>"

ask_spelling == "<em style=\"font-size:14pt\">Spell:</em>"

(* One fh.write of save(): the four tab-separated columns of the row.  No
   column holds a tab (cleanup replaces them), so the columns are the row. *)
Row(card, role, stem, ask_front, front, ask_back, back) ==
    [uuid  |-> [prefix |-> card.uuid_prefix, role |-> role, stem |-> stem],
     front |-> <<ask_front, "<br /><br />">> \o front,
     back  |-> <<ask_back, "<br /><br />">> \o back,
     tags  |-> card.tags]

NonEmptyCount(fragments) ==
    Cardinality({k \in DOMAIN fragments : Len(fragments[k]) > 0})

(* A mutant of SaveRows: the WT row is written when either side is
   non-empty. *)
SaveRows_wt_either(card, clk) ==
    LET dressed_word          == dress_word(card.word, card.flags)
        dressed_translation   == dress_translation(card.translation, card.flags)
        dressed_pronunciation == dress_pronunciation(card.pronunciation, card.flags)
        uuid_stem             == calc_uuid_stem(card, clk)
    IN  IF NonEmptyCount(<<dressed_word, dressed_translation,
                           dressed_pronunciation>>) = 0
        THEN <<>>
        ELSE (IF Len(dressed_word) > 0 \/ Len(dressed_translation) > 0
              THEN <<Row(card, "WT", uuid_stem, ask_translation, dressed_word,
                         ask_translation, dressed_translation)>>
              ELSE <<>>)
          \o (IF Len(dressed_word) > 0 /\ Len(dressed_pronunciation) > 0
              THEN <<Row(card, "WP", uuid_stem, ask_pronunciation, dressed_word,
                         ask_spelling, dressed_pronunciation)>>
              ELSE <<>>)
          \o (IF Len(dressed_pronunciation) > 0 /\ Len(dressed_translation) > 0
              THEN <<Row(card, "PT", uuid_stem, ask_translation,
                         dressed_pronunciation, ask_pronunciation,
                         dressed_translation)>>
              ELSE <<>>)

(* A mutant of SaveRows: the WP row is written before the WT row. *)
SaveRows_wp_first(card, clk) ==
    LET dressed_word          == dress_word(card.word, card.flags)
        dressed_translation   == dress_translation(card.translation, card.flags)
        dressed_pronunciation == dress_pronunciation(card.pronunciation, card.flags)
        uuid_stem             == calc_uuid_stem(card, clk)
    IN  IF NonEmptyCount(<<dressed_word, dressed_translation,
                           dressed_pronunciation>>) = 0
        THEN <<>>
        ELSE (IF Len(dressed_word) > 0 /\ Len(dressed_pronunciation) > 0
              THEN <<Row(card, "WP", uuid_stem, ask_pronunciation, dressed_word,
                         ask_spelling, dressed_pronunciation)>>
              ELSE <<>>)
          \o (IF Len(dressed_word) > 0 /\ Len(dressed_translation) > 0
              THEN <<Row(card, "WT", uuid_stem, ask_translation, dressed_word,
                         ask_translation, dressed_translation)>>
              ELSE <<>>)
          \o (IF Len(dressed_pronunciation) > 0 /\ Len(dressed_translation) > 0
              THEN <<Row(card, "PT", uuid_stem, ask_translation,
                         dressed_pronunciation, ask_pronunciation,
                         dressed_translation)>>
              ELSE <<>>)

(* The rows save() writes, in the order it writes them *)
SaveRows(card, clk) ==
    LET dressed_word          == dress_word(card.word, card.flags)
        dressed_translation   == dress_translation(card.translation, card.flags)
        dressed_pronunciation == dress_pronunciation(card.pronunciation, card.flags)
        uuid_stem             == calc_uuid_stem(card, clk)
    IN  IF NonEmptyCount(<<dressed_word, dressed_translation,
                           dressed_pronunciation>>) = 0
        THEN <<>>
        ELSE (IF Len(dressed_word) > 0 /\ Len(dressed_translation) > 0
              THEN <<Row(card, "WT", uuid_stem, ask_translation, dressed_word,
                         ask_translation, dressed_translation)>>
              ELSE <<>>)
          \o (IF Len(dressed_word) > 0 /\ Len(dressed_pronunciation) > 0
              THEN <<Row(card, "WP", uuid_stem, ask_pronunciation, dressed_word,
                         ask_spelling, dressed_pronunciation)>>
              ELSE <<>>)
          \o (IF Len(dressed_pronunciation) > 0 /\ Len(dressed_translation) > 0
              THEN <<Row(card, "PT", uuid_stem, ask_translation,
                         dressed_pronunciation, ask_pronunciation,
                         dressed_translation)>>
              ELSE <<>>)

(* Whether save() reaches calc_uuid_stem, and that call reaches uuid1() *)
SaveCallsUuid1(card, clk) ==
    /\ NonEmptyCount(<<dress_word(card.word, card.flags),
                       dress_translation(card.translation, card.flags),
                       dress_pronunciation(card.pronunciation, card.flags)>>) # 0
    /\ calc_uuid_stem(card, clk).alg = "uuid1"

---------------------------------------------------------------------------
(* The operations *)

(* card.should_be_saved(include_flags, exclude_flags), as the scraper's
   process_file calls it on each card before keeping it *)
ShouldBeSaved(i) ==
    /\ pc[i] = "constructed"
    /\ keep' = [keep EXCEPT ![i] = should_be_saved(cards[i], include_flags,
                                                   exclude_flags)]
    /\ pc' = [pc EXCEPT ![i] = "filtered"]
    /\ UNCHANGED <<entries, cards, include_flags, exclude_flags, fh, stems,
                   clock, arg, ret>>

(* card.save(fh): the importer saves every card it read, the scraper the
   cards should_be_saved kept *)
Save(i) ==
    /\ \/ pc[i] = "constructed"
       \/ pc[i] = "filtered" /\ keep[i] = TRUE
    /\ fh' = fh \o SaveRows(cards[i], clock)
    /\ clock' = IF SaveCallsUuid1(cards[i], clock) THEN clock + 1 ELSE clock
    /\ pc' = [pc EXCEPT ![i] = "saved"]
    /\ UNCHANGED <<entries, cards, include_flags, exclude_flags, keep, stems,
                   arg, ret>>

(* card.calc_uuid_stem(), called on its own *)
NoStem == [alg |-> "none", msg |-> <<>>]

CalcUuidStem(i) ==
    /\ stems[i] = NoStem
    /\ stems' = [stems EXCEPT ![i] = calc_uuid_stem(cards[i], clock)]
    /\ clock' = IF calc_uuid_stem(cards[i], clock).alg = "uuid1"
                THEN clock + 1 ELSE clock
    /\ UNCHANGED <<entries, cards, pc, include_flags, exclude_flags, keep, fh,
                   arg, ret>>

---------------------------------------------------------------------------
(* Spec: one entry is made a Card, filtered and saved *)

MaxCardWordLen == 2

WordAlphabet == {"a", "U+05B8", "1", OpenTag, CloseTag}

CardWords == {None} \cup Texts(WordAlphabet, MaxCardWordLen)

CardTranslations == {None, <<"\t">>, <<"h">>}

CardPronunciations == {None, <<>>, <<"p">>, <<"p", "*", "q", "*">>}

CardFlags == {None, <<".">>, <<"m">>, <<"f", "s">>, <<"2", "V", "S">>,
              <<"m", "f", "2", "V", "S", ".">>}

CardTags == {None, <<"t">>}

CardSources == {None, <<"u">>}

Entries ==
    [word : CardWords, translation : CardTranslations,
     pronunciation : CardPronunciations, flags : CardFlags, tags : CardTags,
     source : CardSources]

NoCall == [fn |-> "none"]

NoResult == [done |-> FALSE, value |-> <<>>]

Result(v) == [done |-> TRUE, value |-> v]

InitCards(es, include, exclude) ==
    /\ entries = es
    /\ cards = [i \in DOMAIN es |-> Card(es[i])]
    /\ pc = [i \in DOMAIN es |-> "constructed"]
    /\ include_flags = include
    /\ exclude_flags = exclude
    /\ keep = [i \in DOMAIN es |-> "unset"]
    /\ fh = <<>>
    /\ stems = [i \in DOMAIN es |-> NoStem]
    /\ clock = 0
    /\ arg = NoCall
    /\ ret = <<>>

Init ==
    \E e \in Entries, exclude \in {<<>>, <<<<"f">>>>} :
        InitCards(<<e>>, <<>>, exclude)

Next ==
    \/ \E i \in DOMAIN cards : ShouldBeSaved(i)
    \/ \E i \in DOMAIN cards : Save(i)

Spec == Init /\ [][Next]_vars

---------------------------------------------------------------------------
(* Claims about Card.save, under Spec (one card, so fh holds its rows) *)

Fragments(card) ==
    <<dress_word(card.word, card.flags),
      dress_translation(card.translation, card.flags),
      dress_pronunciation(card.pronunciation, card.flags)>>

WordFragment(card) == Fragments(card)[1]

TranslationFragment(card) == Fragments(card)[2]

PronunciationFragment(card) == Fragments(card)[3]

Roles(rows) == [k \in DOMAIN rows |-> rows[k].uuid.role]

(* C2, as claimed: a saved card has at most 3 rows, and has 0 rows if and
   only if all three rendered fragments are empty. *)
C2_ZeroRowsIffAllEmpty ==
    \A i \in DOMAIN cards :
        pc[i] = "saved" =>
            /\ Len(fh) <= 3
            /\ (Len(fh) = 0 <=> NonEmptyCount(Fragments(cards[i])) = 0)

(* C2, amended: a saved card has at most 3 rows, and has 0 rows if and only
   if at most one of the three rendered fragments is non-empty (a row needs
   two non-empty fragments). *)
C2_ZeroRowsIffNoPair ==
    \A i \in DOMAIN cards :
        pc[i] = "saved" =>
            /\ Len(fh) <= 3
            /\ (Len(fh) = 0 <=> NonEmptyCount(Fragments(cards[i])) <= 1)

(* A card saved with exactly one non-empty fragment, and no row written *)
C2_Witness ==
    \E i \in DOMAIN cards :
        /\ pc[i] = "saved"
        /\ NonEmptyCount(Fragments(cards[i])) = 1
        /\ Len(fh) = 0

(* C3: the rows of a saved card are, in this order, WT iff word and
   translation fragments are non-empty, WP iff word and pronunciation
   fragments are, PT iff pronunciation and translation fragments are; every
   row carries the card's prefix, the card's tags and one common stem. *)
C3_RowsPerPairInOrder ==
    \A i \in DOMAIN cards :
        pc[i] = "saved" =>
            LET w == Len(WordFragment(cards[i])) > 0
                t == Len(TranslationFragment(cards[i])) > 0
                p == Len(PronunciationFragment(cards[i])) > 0
            IN  /\ Roles(fh) = (IF w /\ t THEN <<"WT">> ELSE <<>>)
                               \o (IF w /\ p THEN <<"WP">> ELSE <<>>)
                               \o (IF p /\ t THEN <<"PT">> ELSE <<>>)
                /\ \A k \in DOMAIN fh :
                       /\ fh[k].uuid.prefix = cards[i].uuid_prefix
                       /\ fh[k].tags = cards[i].tags
                       /\ fh[k].uuid.stem = fh[1].uuid.stem

(* A card saved with all three rows, under non-empty tags *)
C3_Witness ==
    \E i \in DOMAIN cards :
        /\ pc[i] = "saved"
        /\ Roles(fh) = <<"WT", "WP", "PT">>
        /\ cards[i].tags # <<>>

Missing(field) == field = None \/ field = <<>>

(* C10: a missing (None) or empty word, translation or pronunciation renders
   an empty fragment and every row that involves the field is omitted; with
   all three missing no row is written. *)
C10_MissingFieldOmitsRows ==
    \A i \in DOMAIN cards :
        pc[i] = "saved" =>
            /\ Missing(entries[i].word) =>
                   /\ WordFragment(cards[i]) = <<>>
                   /\ ~Contains(Roles(fh), "WT") /\ ~Contains(Roles(fh), "WP")
            /\ Missing(entries[i].translation) =>
                   /\ TranslationFragment(cards[i]) = <<>>
                   /\ ~Contains(Roles(fh), "WT") /\ ~Contains(Roles(fh), "PT")
            /\ Missing(entries[i].pronunciation) =>
                   /\ PronunciationFragment(cards[i]) = <<>>
                   /\ ~Contains(Roles(fh), "WP") /\ ~Contains(Roles(fh), "PT")
            /\ (/\ Missing(entries[i].word)
                /\ Missing(entries[i].translation)
                /\ Missing(entries[i].pronunciation)) => fh = <<>>

---------------------------------------------------------------------------
(* SpecIdentity: two entries are made Cards and each Card's identity stem
   is computed *)

IdentityWords ==
    {None, <<>>, <<"a">>, <<"a", "1">>, <<"a", "U+05B8">>, <<"1">>}

IdentityFlags == {None, <<".">>, <<"2", "V", "S">>}

IdentitySources ==
    {<<>>, <<"u">>, <<" ", "u">>, <<"u", " ", "v">>, <<"u", "\t", "v">>}

IdentityEntries ==
    [word : IdentityWords, translation : {None}, pronunciation : {None},
     flags : IdentityFlags, tags : {None}, source : IdentitySources]

InitIdentity ==
    \E e1 \in IdentityEntries, e2 \in IdentityEntries :
        InitCards(<<e1, e2>>, <<>>, <<>>)

NextIdentity == \E i \in DOMAIN cards : CalcUuidStem(i)

SpecIdentity == InitIdentity /\ [][NextIdentity]_vars

BothStemsComputed(i, j) == i # j /\ stems[i] # NoStem /\ stems[j] # NoStem

(* C4, as claimed: the stems computed for two cards made from the same
   entry (the same word and source) are identical, whatever the word and
   the source. *)
C4_StemRepeatable ==
    \A i, j \in DOMAIN cards :
        (BothStemsComputed(i, j) /\ entries[i] = entries[j])
            => stems[i] = stems[j]

(* C4, amended: the stems computed for two cards made from the same entry
   are identical when the hashed string is non-empty (the word keeps a
   letter or a mark, or the source is non-empty after cleanup); when it is
   empty each computation returns a fresh random identifier and the two
   differ. *)
C4_StemRepeatableUnlessEmpty ==
    \A i, j \in DOMAIN cards :
        (BothStemsComputed(i, j) /\ entries[i] = entries[j])
            => (stems[i] = stems[j] <=> Len(UuidRep(cards[i])) > 0)

(* Two cards of one entry with a non-empty word, both stems computed *)
C4_Witness ==
    \E i, j \in DOMAIN cards :
        /\ BothStemsComputed(i, j) /\ entries[i] = entries[j]
        /\ cards[i].word # <<>>
        /\ stems[i] = stems[j]

(* C5: two cards with the same word and source and any flags hash the same
   string: both stems are digests of one string, or both are the random
   fallback of an empty string. *)
C5_StemIgnoresFlags ==
    \A i, j \in DOMAIN cards :
        (/\ BothStemsComputed(i, j)
         /\ cards[i].word = cards[j].word
         /\ cards[i].source = cards[j].source)
            => /\ stems[i].alg = stems[j].alg
               /\ stems[i].alg = "sha256" => stems[i].msg = stems[j].msg

(* Two cards of one pointed word, one with the sentinel and one with the
   2/V/S flags, both stems computed *)
C5_Witness ==
    \E i, j \in DOMAIN cards :
        /\ BothStemsComputed(i, j)
        /\ cards[i].word = <<"a", "U+05B8">> /\ cards[j].word = cards[i].word
        /\ cards[i].source = cards[j].source
        /\ cards[i].flags = <<".">> /\ cards[j].flags = <<"2", "V", "S">>

SameNormalizedWord(i, j) ==
    \/ remove_nekudot(cards[i].word, Append(cards[i].flags, "."))
         = remove_nekudot(cards[j].word, Append(cards[j].flags, "."))
    \/ remove_nekudot(cards[i].word, cards[i].flags)
         = remove_nekudot(cards[j].word, cards[j].flags)

(* C6, as claimed: two cards whose words normalize to the same string and
   that were constructed with two different source strings get different
   stems. *)
C6_SourceSeparatesStems ==
    \A i, j \in DOMAIN cards :
        (/\ BothStemsComputed(i, j)
         /\ SameNormalizedWord(i, j)
         /\ entries[i].source # entries[j].source)
            => stems[i] # stems[j]

(* C6, amended: two cards whose words normalize to the same string and
   whose sources differ after the constructor's cleanup (None becomes the
   empty string, tabs become spaces, the ends are trimmed) get different
   stems. *)
C6_CleanSourceSeparatesStems ==
    \A i, j \in DOMAIN cards :
        (/\ BothStemsComputed(i, j)
         /\ SameNormalizedWord(i, j)
         /\ cards[i].source # cards[j].source)
            => stems[i] # stems[j]

(* Two cards of different raw words with one normalized word, and two
   different non-empty sources, both stems computed *)
C6_Witness ==
    \E i, j \in DOMAIN cards :
        /\ BothStemsComputed(i, j)
        /\ entries[i].word = <<"a">> /\ entries[j].word = <<"a", "1">>
        /\ cards[i].source = <<"u">> /\ cards[j].source = <<"u", " ", "v">>
        /\ stems[i] # stems[j]

---------------------------------------------------------------------------
(* SpecFilter: the scraper parses its -i and -x arguments and asks
   should_be_saved about one card *)

(* s.split(sep=','): the fields between the commas *)
RECURSIVE Split(_)
Split(s) ==
    IF ~Contains(s, ",") THEN <<s>>
    ELSE LET k == CHOOSE i \in DOMAIN s :
                      s[i] = "," /\ \A l \in 1..(i - 1) : s[l] # ","
         IN  <<SubSeq(s, 1, k - 1)>> \o Split(SubSeq(s, k + 1, Len(s)))

parse_flags(s) ==
    LET fields == Split(cleanup(s))
        kept   == {k \in DOMAIN fields : Len(cleanup(fields[k])) > 0}
        RECURSIVE Collect(_)
        Collect(k) ==
            IF k > Len(fields) THEN <<>>
            ELSE (IF k \in kept THEN <<cleanup(fields[k])>> ELSE <<>>)
                 \o Collect(k + 1)
    IN  Collect(1)

MaxArgLen == 3

ArgAlphabet == {"m", "f", ","}

FilterCardFlags ==
    {None, <<"m">>, <<"f">>, <<"m", "f">>, <<"f", "s">>, <<"s">>}

FilterEntries ==
    [word : {<<"a">>}, translation : {<<"h">>}, pronunciation : {None},
     flags : FilterCardFlags, tags : {None}, source : {None}]

InitFilter ==
    \E e \in FilterEntries, include_arg \in Texts(ArgAlphabet, MaxArgLen),
       exclude_arg \in Texts(ArgAlphabet, MaxArgLen) :
        InitCards(<<e>>, parse_flags(include_arg), parse_flags(exclude_arg))

NextFilter == \E i \in DOMAIN cards : ShouldBeSaved(i)

SpecFilter == InitFilter /\ [][NextFilter]_vars

(* Some predicate of the list has all of its characters in the card's
   flags *)
SomePredicateSatisfied(card, predicates) ==
    \E k \in DOMAIN predicates :
        \A l \in DOMAIN predicates[k] :
            \E n \in DOMAIN card.flags : card.flags[n] = predicates[k][l]

(* C1: should_be_saved follows the truth table over which lists are empty,
   I (some include predicate satisfied) and X (some exclude predicate
   satisfied); include ["m"], exclude ["f"] drops flags "f" and keeps
   flags "mf". *)
C1_FilterTruthTable ==
    \A i \in DOMAIN cards :
        pc[i] = "filtered" =>
            LET I == SomePredicateSatisfied(cards[i], include_flags)
                X == SomePredicateSatisfied(cards[i], exclude_flags)
            IN  /\ (include_flags = <<>> /\ exclude_flags = <<>>)
                       => keep[i] = TRUE
                /\ (include_flags # <<>> /\ exclude_flags = <<>>)
                       => keep[i] = I
                /\ (include_flags = <<>> /\ exclude_flags # <<>>)
                       => keep[i] = ~X
                /\ (include_flags # <<>> /\ exclude_flags # <<>>)
                       => keep[i] = (I \/ ~X)
                /\ (/\ include_flags = <<<<"m">>>>
                    /\ exclude_flags = <<<<"f">>>>
                    /\ cards[i].flags = <<"f">>) => keep[i] = FALSE
                /\ (/\ include_flags = <<<<"m">>>>
                    /\ exclude_flags = <<<<"f">>>>
                    /\ cards[i].flags = <<"m", "f">>) => keep[i] = TRUE

(* The card with flags "mf", filtered under include ["m"] and exclude
   ["f"], and kept *)
C1_Witness ==
    \E i \in DOMAIN cards :
        /\ pc[i] = "filtered"
        /\ include_flags = <<<<"m">>>> /\ exclude_flags = <<<<"f">>>>
        /\ cards[i].flags = <<"m", "f">>
        /\ keep[i] = TRUE

---------------------------------------------------------------------------
(* SpecFlags: utils.annotate_flags is called on a flags string *)

AnnotateFlags ==
    /\ arg.fn = "annotate_flags"
    /\ ~ret[1].done
    /\ ret' = <<Result(annotate_flags(arg.flags))>>
    /\ UNCHANGED <<entries, cards, pc, include_flags, exclude_flags, keep, fh,
                   stems, clock, arg>>

InitCall(call, results) ==
    /\ entries = <<>>
    /\ cards = <<>>
    /\ pc = <<>>
    /\ include_flags = <<>>
    /\ exclude_flags = <<>>
    /\ keep = <<>>
    /\ fh = <<>>
    /\ stems = <<>>
    /\ clock = 0
    /\ arg = call
    /\ ret = results

(* The grammar's characters in one fixed order, the part-of-speech V, and x,
   a character outside the alphabet *)
FlagOrder ==
    <<"m", "f", "1", "2", "3", "s", "p", "I", "P", "S", "F", "a", "c", "V",
      "x">>

FlagAlphabet == {FlagOrder[k] : k \in DOMAIN FlagOrder}

MaxFlagsLen == 2

(* Every set of flag characters written in FlagOrder's order, and every
   short string in any order, repetitions included *)
FlagStrings ==
    {SelectSeq(FlagOrder, LAMBDA c : c \in chosen) :
         chosen \in SUBSET FlagAlphabet}
    \cup Texts(FlagAlphabet, MaxFlagsLen)

InitFlags ==
    \E f \in FlagStrings :
        InitCall([fn |-> "annotate_flags", flags |-> f], <<NoResult>>)

NextFlags == AnnotateFlags

SpecFlags == InitFlags /\ [][NextFlags]_vars

Present(flags, chars) == {c \in chars : \E k \in DOMAIN flags : flags[k] = c}

PersonRank(c) == IF c = "1" THEN 1 ELSE IF c = "2" THEN 2 ELSE 3

Ordinal(c) == IF c = "1" THEN "1st" ELSE IF c = "2" THEN "2nd" ELSE "3rd"

(* The phrase of a two-flag category: shown when exactly one flag is there *)
OneOfTwo(flags, first, first_name, second, second_name) ==
    LET present == Present(flags, {first, second})
    IN  IF present = {first} THEN <<first_name>>
        ELSE IF present = {second} THEN <<second_name>>
        ELSE <<>>

ExpectedPerson(flags) ==
    LET present == Present(flags, {"1", "2", "3"})
        low  == CHOOSE c \in present :
                    \A d \in present : PersonRank(c) <= PersonRank(d)
        high == CHOOSE c \in present : c # low
    IN  IF Cardinality(present) = 1
        THEN <<Ordinal(CHOOSE c \in present : TRUE) \o " person">>
        ELSE IF Cardinality(present) = 2
        THEN <<Ordinal(low) \o "/" \o Ordinal(high) \o " person">>
        ELSE <<>>

ExpectedTense(flags) ==
    LET priority == <<"I", "P", "S", "F">>
        names    == <<"infinitive", "present", "past", "future">>
        present  == {k \in 1..4 : \E n \in DOMAIN flags : flags[n] = priority[k]}
    IN  IF present = {} THEN <<>>
        ELSE <<names[CHOOSE k \in present : \A l \in present : k <= l]>>

ExpectedAnnotation(flags) ==
    Join(OneOfTwo(flags, "m", "masculine", "f", "feminine")
         \o ExpectedPerson(flags)
         \o OneOfTwo(flags, "s", "single", "p", "plural")
         \o ExpectedTense(flags)
         \o OneOfTwo(flags, "a", "absolute", "c", "construct"))

(* C7: annotate_flags returns the space-joined phrases in the order gender,
   person, number, tense, state: a two-flag category when exactly one flag
   is present, the person alone or as a pair, nothing for none or all three,
   one tense by priority I > P > S > F; "" for empty or unknown-only input;
   "mf" gives "" and "m1s" gives "masculine 1st person single". *)
C7_AnnotationGrammar ==
    ret # <<>> /\ ret[1].done =>
        /\ ret[1].value = ExpectedAnnotation(arg.flags)
        /\ Present(arg.flags, FlagAlphabet \ {"V", "x"}) = {}
               => ret[1].value = ""
        /\ arg.flags = <<"m", "f">> => ret[1].value = ""
        /\ arg.flags = <<"m", "1", "s">>
               => ret[1].value = "masculine 1st person single"

(* annotate_flags called on a string with a gender, two persons, a number,
   two tenses and a state *)
C7_Witness ==
    /\ ret # <<>> /\ ret[1].done
    /\ arg.flags = <<"m", "1", "2", "s", "P", "S", "a">>
    /\ ret[1].value = "masculine 1st/2nd person single present absolute"

---------------------------------------------------------------------------
(* SpecNekudot: utils.remove_nekudot is called on a word under a flags
   string, and on the same word under that string with '.' appended (the
   call calc_uuid_stem makes) *)

RemoveNekudot ==
    /\ arg.fn = "remove_nekudot"
    /\ ~ret[1].done
    /\ ret' = [ret EXCEPT ![1] = Result(remove_nekudot(arg.word, arg.flags))]
    /\ UNCHANGED <<entries, cards, pc, include_flags, exclude_flags, keep, fh,
                   stems, clock, arg>>

RemoveNekudotSentinel ==
    /\ arg.fn = "remove_nekudot"
    /\ ~ret[2].done
    /\ ret' = [ret EXCEPT ![2] =
                   Result(remove_nekudot(arg.word, Append(arg.flags, ".")))]
    /\ UNCHANGED <<entries, cards, pc, include_flags, exclude_flags, keep, fh,
                   stems, clock, arg>>

MaxWordLen == 3

NekudotAlphabet == {"a", "U+05B8", "U+05B0", "1", " ", OpenTag, CloseTag}

NekudotFlags ==
    {SelectSeq(<<"m", "2", "V", "S", ".">>, LAMBDA c : c \in chosen) :
         chosen \in SUBSET {"m", "2", "V", "S", "."}}

InitNekudot ==
    \E w \in Texts(NekudotAlphabet, MaxWordLen), f \in NekudotFlags :
        InitCall([fn |-> "remove_nekudot", word |-> w, flags |-> f],
                 <<NoResult, NoResult>>)

NextNekudot == RemoveNekudot \/ RemoveNekudotSentinel

SpecNekudot == InitNekudot /\ [][NextNekudot]_vars

MarkupFree(word) == \A k \in DOMAIN word : ~IsTagToken(word[k])

LettersAndMarks(word) == SelectSeq(word, LAMBDA c : c \in Letters \cup Marks)

LettersOnly(word) == SelectSeq(word, LAMBDA c : c \in Letters)

Has2VS(flags) ==
    \A c \in {"2", "V", "S"} : \E k \in DOMAIN flags : flags[k] = c

ExpectedNormalized(word, flags) ==
    LET retained == LettersAndMarks(word)
    IN  IF \E k \in DOMAIN flags : flags[k] = "." THEN retained
        ELSE IF /\ Has2VS(flags)
                /\ retained # <<>>
                /\ retained[Len(retained)] \in Marks
        THEN Append(LettersOnly(word), retained[Len(retained)])
        ELSE LettersOnly(word)

(* C8: for markup-free text remove_nekudot returns the letters and marks of
   the text when flags contain '.', and otherwise its letters, followed by
   the last mark when flags contain 2, V and S and the text's last letter or
   mark is a mark. *)
C8_NormalizeMarkupFree ==
    (/\ arg.fn = "remove_nekudot"
     /\ ret[1].done
     /\ MarkupFree(arg.word))
        => ret[1].value = ExpectedNormalized(arg.word, arg.flags)

(* C9: for flags without '.', the result under flags + '.' is at least as
   long as the result under flags, and both hold the same letters in the
   same order. *)
C9_SentinelOnlyAddsMarks ==
    (/\ arg.fn = "remove_nekudot"
     /\ ret[1].done /\ ret[2].done
     /\ ~Contains(arg.flags, "."))
        => /\ Len(ret[2].value) >= Len(ret[1].value)
           /\ LettersOnly(ret[2].value) = LettersOnly(ret[1].value)

(* A word with two marks under flags without '.': the plain call strips
   them and the sentinel call keeps them *)
C9_Witness ==
    /\ arg.fn = "remove_nekudot"
    /\ arg.word = <<"a", "U+05B8", "U+05B0">> /\ arg.flags = <<"m">>
    /\ ret[1].done /\ ret[2].done
    /\ ret[1].value = <<"a">>
    /\ ret[2].value = <<"a", "U+05B8", "U+05B0">>

---------------------------------------------------------------------------
(* SpecAppend: the collaborator appends flags and tags to a constructed
   card before it is filtered *)

(* A mutant of append_flags: the flags are overwritten, not extended. *)
append_flags_overwrite(card, flags) ==
    [card EXCEPT !.flags = <<" ">> \o cleanup(flags)]

append_flags(card, flags) ==
    [card EXCEPT !.flags = card.flags \o <<" ">> \o cleanup(flags)]

(* A mutant of append_tags: the tags are overwritten, not extended. *)
append_tags_overwrite(card, tags) ==
    [card EXCEPT !.tags = <<" ">> \o cleanup(tags)]

append_tags(card, tags) ==
    [card EXCEPT !.tags = card.tags \o <<" ">> \o cleanup(tags)]

(* The longest flags or tags string the model lets a card grow to *)
MaxFieldLen == 5

(* card.append_flags(flags); arg keeps the argument of the last call *)
AppendFlags(i, flags) ==
    /\ pc[i] = "constructed"
    /\ Len(append_flags(cards[i], flags).flags) <= MaxFieldLen
    /\ cards' = [cards EXCEPT ![i] = append_flags(cards[i], flags)]
    /\ arg' = [fn |-> "append_flags", text |-> flags]
    /\ UNCHANGED <<entries, pc, include_flags, exclude_flags, keep, fh, stems,
                   clock, ret>>

(* card.append_tags(tags) *)
AppendTags(i, tags) ==
    /\ pc[i] = "constructed"
    /\ Len(append_tags(cards[i], tags).tags) <= MaxFieldLen
    /\ cards' = [cards EXCEPT ![i] = append_tags(cards[i], tags)]
    /\ arg' = [fn |-> "append_tags", text |-> tags]
    /\ UNCHANGED <<entries, pc, include_flags, exclude_flags, keep, fh, stems,
                   clock, ret>>

AppendEntries ==
    [word : {<<"a", "U+05B8">>}, translation : {<<"h">>},
     pronunciation : {None},
     flags : {None, <<"m">>, <<"f", ".">>, <<"2", "V", "S">>},
     tags : {None, <<"t">>}, source : {<<"u">>}]

(* Arguments of append_flags: characters outside the flag alphabet (x, !),
   characters of it, both, and nothing *)
AppendFlagsArgs ==
    {<<>>, <<"x">>, <<"!">>, <<"m">>, <<"f", "x">>}

AppendTagsArgs == {<<>>, <<"\t", "g">>}

InitAppend == \E e \in AppendEntries : InitCards(<<e>>, <<>>, <<>>)

NextAppend ==
    \/ \E i \in DOMAIN cards, f \in AppendFlagsArgs : AppendFlags(i, f)
    \/ \E i \in DOMAIN cards, t \in AppendTagsArgs : AppendTags(i, t)

SpecAppend == InitAppend /\ [][NextAppend]_vars

(* The closed flag alphabet *)
ClosedAlphabet ==
    {"m", "f", "s", "p", "1", "2", "3", "I", "P", "S", "F", "a", "c", "V",
     "N", "A", "B", "."}

(* The characters an append_flags call adds: the space it inserts and the
   characters of its cleaned argument *)
AddedCharacters(text) ==
    {" "} \cup {cleanup(text)[k] : k \in DOMAIN cleanup(text)}

ProbePredicates ==
    {<<"m">>, <<"f">>, <<"x">>, <<"m", "x">>, <<"!">>, <<"m", " ", "f">>,
     <<"2", "V", "S">>}

ProbeLists == {<<>>} \cup {<<predicate>> : predicate \in ProbePredicates}

Mentions(predicates, chars) ==
    \E k \in DOMAIN predicates :
        \E l \in DOMAIN predicates[k] : predicates[k][l] \in chars

(* The step is an append_flags call on card i that adds only characters
   outside the closed alphabet *)
AddsOnlyUnknownFlags(i) ==
    /\ cards'[i].flags # cards[i].flags
    /\ arg'.fn = "append_flags"
    /\ AddedCharacters(arg'.text) \cap ClosedAlphabet = {}

UnknownFlagsInertFor(i, lists) ==
    /\ annotate_flags(cards'[i].flags) = annotate_flags(cards[i].flags)
    /\ remove_nekudot(cards'[i].word, cards'[i].flags)
           = remove_nekudot(cards[i].word, cards[i].flags)
    /\ \A include \in lists, exclude \in lists :
           should_be_saved(cards'[i], include, exclude)
               = should_be_saved(cards[i], include, exclude)
    /\ \A c \in AddedCharacters(arg'.text) : Contains(cards'[i].flags, c)

(* C11, as claimed: adding characters outside the closed alphabet to a
   card's flags changes neither annotate_flags, nor remove_nekudot, nor
   should_be_saved for any include and exclude lists, and the characters
   stay in the flags string. *)
C11_UnknownFlagsInert ==
    [][\A i \in DOMAIN cards :
           AddsOnlyUnknownFlags(i) => UnknownFlagsInertFor(i, ProbeLists)]_vars

(* C11, amended: adding characters outside the closed alphabet to a card's
   flags changes neither annotate_flags, nor remove_nekudot, nor
   should_be_saved for any include and exclude lists none of whose
   predicates contains an added character, and the characters stay in the
   flags string. *)
C11_UnknownFlagsInertUnlessNamed ==
    [][\A i \in DOMAIN cards :
           AddsOnlyUnknownFlags(i) =>
               UnknownFlagsInertFor(i,
                   {l \in ProbeLists :
                        ~Mentions(l, AddedCharacters(arg'.text))})]_vars

(* A card with the 2, V and S flags after append_flags("x") *)
C11_Witness ==
    \E i \in DOMAIN cards :
        /\ arg.fn = "append_flags" /\ arg.text = <<"x">>
        /\ cards[i].flags = <<"2", "V", "S", " ", "x">>

---------------------------------------------------------------------------
(* SpecPron: utils.dress_pronunciation is called on a text *)

DressPronunciation ==
    /\ arg.fn = "dress_pronunciation"
    /\ ~ret[1].done
    /\ ret' = <<Result(dress_pronunciation(arg.pronunciation, arg.flags))>>
    /\ UNCHANGED <<entries, cards, pc, include_flags, exclude_flags, keep, fh,
                   stems, clock, arg>>

MaxPronLen == 6

PronAlphabet == {"a", "b", "*", " ", "\t"}

InitPron ==
    \E text \in {None} \cup Texts(PronAlphabet, MaxPronLen) :
        InitCall([fn |-> "dress_pronunciation", pronunciation |-> text,
                  flags |-> <<"m">>], <<NoResult>>)

NextPron == DressPronunciation

SpecPron == InitPron /\ [][NextPron]_vars

MediumSpan == "<span style=\"font-size:18pt\">"

BoldRedSpan == "<span style=\"color:red;font-weight:bold;\">"

EndSpan == "</span>"

Trimmed(text) == IF text = None THEN <<>> ELSE Strip(text)

TabsReplacedAndTrimmed(text) ==
    IF text = None THEN <<>>
    ELSE Strip([k \in DOMAIN text |-> IF text[k] = "\t" THEN " " ELSE text[k]])

Stars(t) == {k \in DOMAIN t : t[k] = "*"}

FirstStar(t) == CHOOSE k \in Stars(t) : \A l \in Stars(t) : k <= l

LastStar(t) == CHOOSE k \in Stars(t) : \A l \in Stars(t) : l <= k

(* prefix*core*suffix, with exactly two stars and a non-empty core *)
StressShaped(t) == Cardinality(Stars(t)) = 2 /\ LastStar(t) - FirstStar(t) >= 2

ExpectedPronunciation(t) ==
    IF StressShaped(t)
    THEN <<MediumSpan>> \o SubSeq(t, 1, FirstStar(t) - 1)
         \o <<BoldRedSpan>> \o SubSeq(t, FirstStar(t) + 1, LastStar(t) - 1)
         \o <<EndSpan>> \o SubSeq(t, LastStar(t) + 1, Len(t)) \o <<EndSpan>>
    ELSE <<MediumSpan>> \o t \o <<EndSpan>>

(* C12, as claimed: dress_pronunciation trims the text and, when it is
   non-empty, returns the medium span with the core in a nested bold-red
   span and both stars removed when the trimmed text has exactly two stars
   and a non-empty core, and the whole trimmed text in one span with no
   nested span otherwise. *)
C12_StressMarker ==
    (/\ arg.fn = "dress_pronunciation"
     /\ ret[1].done
     /\ Trimmed(arg.pronunciation) # <<>>)
        => ret[1].value = ExpectedPronunciation(Trimmed(arg.pronunciation))

(* C12, amended: dress_pronunciation replaces every tab of the text by a
   space and trims it and, when the result is non-empty, returns the medium
   span with the core in a nested bold-red span and both stars removed when
   that text has exactly two stars and a non-empty core, and the whole of
   that text in one span with no nested span otherwise. *)
C12_StressMarkerAfterCleanup ==
    (/\ arg.fn = "dress_pronunciation"
     /\ ret[1].done
     /\ TabsReplacedAndTrimmed(arg.pronunciation) # <<>>)
        => ret[1].value
               = ExpectedPronunciation(TabsReplacedAndTrimmed(arg.pronunciation))

(* dress_pronunciation called on " a*ba*b", returning a, the core ba in the
   nested span, and b *)
C12_Witness ==
    /\ arg.fn = "dress_pronunciation"
    /\ arg.pronunciation = <<" ", "a", "*", "b", "a", "*">>
    /\ ret[1].done
    /\ ret[1].value = <<MediumSpan, "a", BoldRedSpan, "b", "a", EndSpan,
                        EndSpan>>

---------------------------------------------------------------------------
(* C13: the frame of append_flags and append_tags, under SpecAppend *)

IsPrefix(s, t) == Len(s) <= Len(t) /\ SubSeq(t, 1, Len(s)) = s

Characters(text) == {text[k] : k \in DOMAIN text}

ValueFieldsKept(i) ==
    /\ cards'[i].word = cards[i].word
    /\ cards'[i].translation = cards[i].translation
    /\ cards'[i].pronunciation = cards[i].pronunciation
    /\ cards'[i].source = cards[i].source
    /\ UuidRep(cards'[i]) = UuidRep(cards[i])

OtherFieldKept(i) ==
    /\ arg'.fn = "append_tags" => cards'[i].flags = cards[i].flags
    /\ arg'.fn = "append_flags" => cards'[i].tags = cards[i].tags

OnlyGrows(i) ==
    /\ IsPrefix(cards[i].flags, cards'[i].flags)
    /\ IsPrefix(cards[i].tags, cards'[i].tags)
    /\ Characters(cards[i].flags) \subseteq Characters(cards'[i].flags)
    /\ \A predicate \in ProbePredicates :
           has_all_flags(cards[i], predicate)
               => has_all_flags(cards'[i], predicate)

(* C13: every append_flags or append_tags call leaves the card's word,
   translation, pronunciation, source and identity stem input unchanged;
   append_tags leaves flags and append_flags leaves tags unchanged; flags
   and tags only grow, every character of flags stays present, and every
   predicate has_all_flags accepted before the call is accepted after it. *)
C13_AppendFrame ==
    [][\A i \in DOMAIN cards :
           ValueFieldsKept(i) /\ OtherFieldKept(i) /\ OnlyGrows(i)]_vars

(* a card constructed with flags "m" and tags "t", after append_flags("x")
   and append_tags of a tab and "g": still accepted by the predicate "m" *)
C13_Witness ==
    \E i \in DOMAIN cards :
        /\ cards[i].flags = <<"m", " ", "x">>
        /\ cards[i].tags = <<"t", " ", "g">>
        /\ cards[i].word = <<"a", "U+05B8">>
        /\ has_all_flags(cards[i], <<"m">>)

====
